---- MODULE Spec2Model ----
(***************************************************************************)
(* Model of upload_pkg_internetarchive.py: clean_name, extract_pkginfo,    *)
(* upload_pkg and main.  Python strings are sequences of one-character     *)
(* strings, so that the regular expressions, str.replace, str.endswith,    *)
(* str.strip and sorted() are computed character by character.             *)
(***************************************************************************)
EXTENDS Integers, Sequences, FiniteSets, TLC

\* disk is the content of the package file extract_pkginfo has opened
\* (Unreadable until then).
VARIABLES pkg_dir, years, dir, disk, pc, pkgname, identifier, metadata,
          scanned, files, last_pkg, pkginfo, extracted, uploads, res,
          stderr, stdout, raised

vars == <<pkg_dir, years, dir, disk, pc, pkgname, identifier, metadata,
          scanned, files, last_pkg, pkginfo, extracted, uploads, res,
          stderr, stdout, raised>>

(***************************************************************************)
(* Bounds of the model.                                                    *)
(***************************************************************************)
MaxEntries == 2      \* directory entries returned by os.scandir
MaxResults == 3      \* per-file results returned by ia.upload
MaxNameLen == 3      \* characters of pkg_dir in the clean_name runs
MaxLines == 3        \* lines of the first tar entry in the extract_pkginfo runs
MaxTarEntries == 2   \* entries of the tar stream in the extract_pkginfo runs

(***************************************************************************)
(* Characters and strings.                                                 *)
(***************************************************************************)
\* An undecodable byte of a .PKGINFO line (bytes.decode('utf8') raises on it).
InvalidByte == "\\xff"

\* The characters the model uses, in code point order (str comparison).
CharOrder ==
    <<"\n", " ", "#", "+", "-", ".", "/", "0", "1", "2", "3", "4", "5", "6", "7", "8",
      "9",
      ":", "=", "@", "A", "X", "Y", "Z", "_", "a", "b", "c", "d", "e", "g", "h",
      "i", "k", "l", "n", "o", "p", "q", "r", "s", "t", "u", "w", "x", "y", "z",
      InvalidByte>>

Ord(c) == CHOOSE i \in 1..Len(CharOrder) : CharOrder[i] = c

Digits == {"0", "1", "2", "3", "4", "5", "6", "7", "8", "9"}
Letters == {"A", "X", "Y", "Z", "a", "b", "c", "d", "e", "g", "h", "i", "k",
            "l", "n", "o", "p", "q", "r", "s", "t", "u", "w", "x", "y", "z"}
Whitespace == {" ", "\n"}

Max(S) == CHOOSE m \in S : \A n \in S : n <= m
Min(S) == CHOOSE m \in S : \A n \in S : m <= n

\* SeqsUpTo(S, n): the sequences over S of length at most n.
SeqsUpTo(S, n) == UNION {[1..k -> S] : k \in 0..n}

\* s < t for Python str: the first differing character decides, a proper
\* prefix is smaller.
StrLess(s, t) ==
    \E i \in 1..(Len(t)) :
        /\ \A j \in 1..(i - 1) : j <= Len(s) /\ s[j] = t[j]
        /\ \/ i = Len(s) + 1
           \/ i <= Len(s) /\ Ord(s[i]) < Ord(t[i])

\* s.endswith(suffix)
EndsWith(s, suffix) ==
    /\ Len(s) >= Len(suffix)
    /\ SubSeq(s, Len(s) - Len(suffix) + 1, Len(s)) = suffix

\* s starts with part at position p
HasAt(s, p, part) ==
    /\ p >= 1
    /\ p + Len(part) - 1 <= Len(s)
    /\ SubSeq(s, p, p + Len(part) - 1) = part

\* s.replace(old, new) for a one-character old
Replace(s, old, new) == [i \in 1..Len(s) |-> IF s[i] = old THEN new ELSE s[i]]

\* s.strip()
RECURSIVE LStrip(_)
LStrip(s) == IF s # <<>> /\ Head(s) \in Whitespace THEN LStrip(Tail(s)) ELSE s
RECURSIVE RStrip(_)
RStrip(s) ==
    IF s # <<>> /\ s[Len(s)] \in Whitespace THEN RStrip(SubSeq(s, 1, Len(s) - 1)) ELSE s
Strip(s) == RStrip(LStrip(s))

\* sorted(seq): insertion sort by str comparison
RECURSIVE Insert(_, _)
Insert(x, sorted) ==
    IF sorted = <<>> THEN <<x>>
    ELSE IF StrLess(x, Head(sorted)) THEN <<x>> \o sorted
    ELSE <<Head(sorted)>> \o Insert(x, Tail(sorted))
RECURSIVE Sorted(_)
Sorted(seq) == IF seq = <<>> THEN <<>> ELSE Insert(Head(seq), Sorted(Tail(seq)))

Range(seq) == {seq[i] : i \in 1..Len(seq)}

(***************************************************************************)
(* clean_name and the identifier of main.                                  *)
(***************************************************************************)
\* clean_name without the replacement of '.'
clean_name_keeps_dot(name) == Replace(Replace(name, "@", "_"), "+", "_")

clean_name(name) == Replace(Replace(Replace(name, "@", "_"), "+", "_"), ".", "_")

\* os.path.basename(p): what follows the last "/"
basename(p) ==
    LET slashes == {i \in 1..Len(p) : p[i] = "/"}
    IN  IF slashes = {} THEN p ELSE SubSeq(p, Max(slashes) + 1, Len(p))

\* os.path.join(directory, name), as os.scandir builds f.path
join(directory, name) ==
    IF directory = <<>> \/ EndsWith(directory, <<"/">>)
    THEN directory \o name
    ELSE directory \o <<"/">> \o name

IdentifierPrefix ==
    <<"a", "r", "c", "h", "l", "i", "n", "u", "x", "_", "p", "k", "g", "_">>

main_identifier(name) == clean_name(IdentifierPrefix \o name)

\* The metadata main builds before it calls upload_pkg.
main_metadata(name) ==
    [k \in {"collection", "mediatype", "publisher", "creator", "subject", "title"} |->
        CASE k = "collection" -> <<"archlinuxarchive">>
          [] k = "mediatype" -> <<"software">>
          [] k = "publisher" -> <<"Arch Linux">>
          [] k = "creator" -> <<"Arch Linux">>
          [] k = "subject" -> <<"archlinux", "archlinux package", name>>
          [] k = "title" -> <<name, " package archive from Arch Linux">>]

(***************************************************************************)
(* SYMLINK_YEAR_REGEXP = '.*/repos/([0-9]{4})/' under re.match.            *)
(***************************************************************************)
ReposSlash == <<"/", "r", "e", "p", "o", "s", "/">>

\* The positions at which '/repos/dddd/' can start after a '.*' prefix:
\* '.' matches anything but a newline.
YearMatchStarts(target) ==
    {p \in 1..Len(target) :
        /\ \A j \in 1..(p - 1) : target[j] # "\n"
        /\ HasAt(target, p, ReposSlash)
        /\ p + 11 <= Len(target)
        /\ \A j \in (p + 7)..(p + 10) : target[j] \in Digits
        /\ target[p + 11] = "/"}

\* match[1], or <<>> when re.match returns None.  '.*' is greedy: the last
\* possible start is the one taken.
YearMatch(target) ==
    LET starts == YearMatchStarts(target)
    IN  IF starts = {} THEN <<>>
        ELSE SubSeq(target, Max(starts) + 7, Max(starts) + 10)

is_symlink(f) == f.kind = "symlink"

\* The year test of line 59 left out
YearInYearsAny(year, ys) == year # <<>>

YearInYears(year, ys) == year \in ys

\* The test of line 62 inverted
NoFilesInverted(fs) == fs # <<>>

NoFiles(fs) == fs = <<>>

SigSuffix == <<".", "s", "i", "g">>

\* filter(lambda x: not x.endswith('.sig'), files)
NotSig(x) == ~EndsWith(x, SigSuffix)
\* The list of line 65 without its filter
CandidatesWithSig(fs) == fs

Candidates(fs) == SelectSeq(fs, NotSig)

\* sorted(...)[-1]; only used on a non-empty list
LastOf(seq) == Sorted(seq)[Len(seq)]

(***************************************************************************)
(* extract_pkginfo.  A tar file is [readable, entries]; an entry is        *)
(* [name, lines], lines being what readlines() returns once decoded.       *)
(***************************************************************************)
PkginfoName == ".PKGINFO"

\* The while True loop over tar.next(): the index of the first entry named
\* '.PKGINFO', or 0 when tar.next() returns None first.
RECURSIVE FindPkginfo(_, _)
FindPkginfo(entries, i) ==
    IF i > Len(entries) THEN 0
    ELSE IF entries[i].name = PkginfoName THEN i
    ELSE FindPkginfo(entries, i + 1)

Decodable(line) == \A i \in 1..Len(line) : line[i] # InvalidByte

\* '(.*)' stops at the first newline.
DotStar(s) ==
    LET nls == {i \in 1..Len(s) : s[i] = "\n"}
    IN  IF nls = {} THEN s ELSE SubSeq(s, 1, Min(nls) - 1)

\* Where ' = ' can follow a '[^=]*' prefix.
LineMatchStarts(line) ==
    {p \in 1..Len(line) :
        /\ \A j \in 1..(p - 1) : line[j] # "="
        /\ HasAt(line, p, <<" ", "=", " ">>)}

LineMatches(line) == LineMatchStarts(line) # {}
LineKey(line) == SubSeq(line, 1, Max(LineMatchStarts(line)) - 1)
LineValue(line) ==
    Strip(DotStar(SubSeq(line, Max(LineMatchStarts(line)) + 3, Len(line))))

\* A dict that keeps the first value of a key
DictSetFirstWins(d, key, value) ==
    [k \in DOMAIN d \cup {key} |-> IF k \in DOMAIN d THEN d[k] ELSE value]

\* res[key] = value
DictSet(d, key, value) ==
    [k \in DOMAIN d \cup {key} |-> IF k = key THEN value ELSE d[k]]

EmptyDict == [k \in {} |-> <<>>]

\* The for loop over pkginfo: the dict after the lines from i on, or the
\* exception line.decode raises.
RECURSIVE ParseLines(_, _, _)
ParseLines(lines, i, d) ==
    IF i > Len(lines) THEN [exc |-> "", res |-> d]
    ELSE IF ~Decodable(lines[i]) THEN [exc |-> "UnicodeDecodeError", res |-> EmptyDict]
    ELSE IF LineMatches(lines[i])
         THEN ParseLines(lines, i + 1, DictSet(d, LineKey(lines[i]), LineValue(lines[i])))
         ELSE ParseLines(lines, i + 1, d)

\* An extractor that returns an empty dict when no entry is named '.PKGINFO'
extract_pkginfo_lenient(tar) ==
    IF ~tar.readable THEN [exc |-> "ReadError", res |-> EmptyDict]
    ELSE LET i == FindPkginfo(tar.entries, 1)
         IN  IF i = 0 THEN [exc |-> "", res |-> EmptyDict]
             ELSE ParseLines(tar.entries[i].lines, 1, EmptyDict)

extract_pkginfo(tar) ==
    IF ~tar.readable THEN [exc |-> "ReadError", res |-> EmptyDict]
    ELSE LET i == FindPkginfo(tar.entries, 1)
         IN  IF i = 0 THEN [exc |-> "AttributeError", res |-> EmptyDict]
             ELSE ParseLines(tar.entries[i].lines, 1, EmptyDict)

(***************************************************************************)
(* Inputs.                                                                 *)
(***************************************************************************)
\* File names of the package directory.
FileNames == {<<"p", "-", "1">>, <<"p", "-", "1", ".", "s", "i", "g">>, <<"p", "-", "2">>, <<"p", "-", "2", ".", "s", "i", "g">>}

\* Raw link targets, as os.readlink returns them.
TargetPlain == <<"/", "r", "e", "p", "o", "s", "/", "2", "0", "1", "3", "/">>
TargetNested == <<"a", "/", "r", "e", "p", "o", "s", "/", "2", "0", "1", "6", "/", "b">>
TargetTwice == <<"/", "r", "e", "p", "o", "s", "/", "2", "0", "1", "3", "/", "r", "e", "p", "o", "s", "/", "2", "0", "9", "9", "/">>
TargetThreeDigits == <<"/", "r", "e", "p", "o", "s", "/", "2", "0", "1", "/">>
TargetNoLeadingSlash == <<"r", "e", "p", "o", "s", "/", "2", "0", "1", "3", "/">>
TargetNoTrailingSlash == <<"/", "r", "e", "p", "o", "s", "/", "2", "0", "1", "3">>
TargetNewline == <<"\n", "/", "r", "e", "p", "o", "s", "/", "2", "0", "1", "3", "/">>
Targets == {TargetPlain, TargetNested, TargetTwice, TargetThreeDigits,
            TargetNoLeadingSlash, TargetNoTrailingSlash, TargetNewline}

\* What os.scandir can say of one name.
EntryKinds ==
    {[kind |-> k, target |-> <<>>] : k \in {"file", "dir"}}
    \cup {[kind |-> "symlink", target |-> t] : t \in Targets}

\* The names of a set, listed in ascending order.
RECURSIVE Listing(_)
Listing(S) ==
    IF S = {} THEN <<>>
    ELSE LET least == CHOOSE x \in S : \A y \in S : x = y \/ StrLess(x, y)
         IN  <<least>> \o Listing(S \ {least})

\* A directory: entries with distinct names, listed by name.  The order in
\* which os.scandir yields them is chosen by the scan loop.
Directories ==
    UNION {{[i \in 1..Cardinality(S) |->
                [name |-> Listing(S)[i], kind |-> a[i].kind, target |-> a[i].target]] :
              a \in [1..Cardinality(S) -> EntryKinds]} :
           S \in {T \in SUBSET FileNames : Cardinality(T) <= MaxEntries}}

Year2013 == <<"2", "0", "1", "3">>
\* The years main passes (line 104).
MainYears == {Year2013, <<"2", "0", "1", "4">>, <<"2", "0", "1", "5">>, <<"2", "0", "1", "6">>}
YearSets == {{}, {Year2013}, MainYears}

PkgDirs == {<<"r", "/", "p", "+", "1">>}

\* Keys of .PKGINFO that upload_pkg reads.
KeyPkgdesc == <<"p", "k", "g", "d", "e", "s", "c">>
KeyUrl == <<"u", "r", "l">>
KeyLicense == <<"l", "i", "c", "e", "n", "s", "e">>

LinePkgdesc == <<"p", "k", "g", "d", "e", "s", "c", " ", "=", " ", "A", "\n">>
LineUrlX == <<"u", "r", "l", " ", "=", " ", "x", "\n">>
LineUrlY == <<"u", "r", "l", " ", "=", " ", "y", "\n">>
LineLicenseX == <<"l", "i", "c", "e", "n", "s", "e", " ", "=", " ", "X", "\n">>
LineLicenseY == <<"l", "i", "c", "e", "n", "s", "e", " ", "=", " ", " ", "Y", " ", "\n">>
LineComment == <<"#", " ", "c", "\n">>
LineNoSpaces == <<"u", "r", "l", "=", "z", "\n">>
LineTwoEquals == <<"u", "r", "l", " ", "=", " ", "a", " ", "=", " ", "b", "\n">>
LineLeadingSpace == <<" ", "u", "r", "l", " ", "=", " ", "w", "\n">>
LineInvalid == <<"u", "r", "l", " ", "=", " ", InvalidByte, "\n">>
\* The lines of the extract_pkginfo runs.
Lines == {LineUrlX, LineLicenseX, LineLicenseY, LineComment,
          LineNoSpaces, LineTwoEquals, LineLeadingSpace, LineInvalid}

Tar(entries) == [readable |-> TRUE, entries |-> entries]
Entry(name, lines) == [name |-> name, lines |-> lines]
\* A file tarfile.open rejects (empty, truncated, not a tar).
Unreadable == [readable |-> FALSE, entries |-> <<>>]

\* The package files upload_pkg can meet at the path of last_pkg.
Containers ==
    {Tar(<<Entry(".MTREE", <<>>), Entry(PkginfoName, <<LinePkgdesc, LineUrlX, LineLicenseX>>)>>),
     Tar(<<Entry(PkginfoName, <<LineUrlX, LineLicenseX, LineLicenseY>>)>>),
     Tar(<<Entry(PkginfoName, <<LinePkgdesc, LineLicenseX>>)>>),
     Tar(<<Entry(PkginfoName, <<LinePkgdesc, LineUrlY>>)>>),
     Tar(<<Entry(".MTREE", <<LineUrlX, LineLicenseX>>)>>),
     Unreadable}

\* The package files of the extract_pkginfo runs: any entry names, any lines
\* in the first entry, one fixed content in the others.
EntryNames == {PkginfoName, ".MTREE", "usr/.PKGINFO"}
EntryNameSeqs == SeqsUpTo(EntryNames, MaxTarEntries)
LineSeqs == SeqsUpTo(Lines, MaxLines)
OtherLines == <<LineUrlY, LineLicenseY>>
TarOf(ns, ls) ==
    Tar([i \in 1..Len(ns) |-> Entry(ns[i], IF i = 1 THEN ls ELSE OtherLines)])

\* Characters of the directory paths of the clean_name runs.
PathAlphabet == {"a", "Z", "7", "-", "_", "@", "+", ".", ":", "/"}

StatusOK == 200
StatusCodes == {StatusOK, 503}
Results == SeqsUpTo(StatusCodes, MaxResults)

\* Exceptions the upload call raises, and the classes 'except Exception' catches.
UploadErrors == {"HTTPError", "ConnectionError"}
ExceptionSubclasses ==
    {"HTTPError", "ConnectionError", "AttributeError", "KeyError", "IndexError",
     "ReadError", "UnicodeDecodeError"}

(***************************************************************************)
(* Result handling of upload_pkg (lines 74-83).                            *)
(***************************************************************************)
\* any() in the place of all() at line 74
AnyOk(r) == \E i \in 1..Len(r) : r[i] = 200

\* all([x.status_code == 200 for x in res])
AllOk(r) == \A i \in 1..Len(r) : r[i] = StatusOK
\* len([x for x in res if x.status_code == 200])
CountOk(r) == Cardinality({i \in 1..Len(r) : r[i] = StatusOK})
\* len([x for x in res if x.status_code != 200])
CountNok(r) == Cardinality({i \in 1..Len(r) : r[i] # StatusOK})
\* set([x.status_code for x in res])
Codes(r) == {r[i] : i \in 1..Len(r)}

\* A handler that catches one class only
CaughtOnlyHTTPError(e) == e = "HTTPError"

\* except Exception as e
CaughtByExcept(e) == e \in ExceptionSubclasses

\* The keys whose lookup pkginfo[...] raises KeyError (line 68).
MissingKeys(d) == {k \in {KeyUrl, KeyLicense} : k \notin DOMAIN d}

\* DESCRIPTION.format(...): the template with its four fields filled in.
Description(name, d) ==
    [pkgdesc |-> IF KeyPkgdesc \in DOMAIN d THEN d[KeyPkgdesc] ELSE <<>>,
     pkgname |-> name,
     url |-> d[KeyUrl],
     license |-> d[KeyLicense]]

Rights(d) == <<"License: ", d[KeyLicense]>>

NoResult == [kind |-> "none", codes |-> <<>>, error |-> ""]

(***************************************************************************)
(* Initial states.                                                         *)
(***************************************************************************)
Start ==
    /\ pc = "main"
    /\ disk = Unreadable
    /\ pkgname = <<>>
    /\ identifier = <<>>
    /\ metadata = [k \in {} |-> <<>>]
    /\ scanned = {}
    /\ files = <<>>
    /\ last_pkg = <<>>
    /\ pkginfo = EmptyDict
    /\ extracted = <<>>
    /\ uploads = <<>>
    /\ res = NoResult
    /\ stderr = <<>>
    /\ stdout = <<>>
    /\ raised = ""

Init ==
    /\ pkg_dir \in PkgDirs
    /\ years \in YearSets
    /\ dir \in Directories
    /\ Start

(***************************************************************************)
(* main (lines 86-101).                                                    *)
(***************************************************************************)
Main ==
    /\ pc = "main"
    /\ pkgname' = basename(pkg_dir)
    /\ identifier' = main_identifier(basename(pkg_dir))
    /\ metadata' = main_metadata(basename(pkg_dir))
    /\ files' = <<>>
    /\ scanned' = {}
    /\ pc' = "scan"
    /\ UNCHANGED <<pkg_dir, years, dir, disk, last_pkg, pkginfo, extracted, uploads,
                   res, stderr, stdout, raised>>

(***************************************************************************)
(* upload_pkg (lines 47-83).                                               *)
(***************************************************************************)
ScanFrame ==
    UNCHANGED <<pkg_dir, years, dir, disk, pc, pkgname, identifier, metadata,
                last_pkg, pkginfo, extracted, uploads, res, stderr, stdout, raised>>

\* The entries os.scandir has not yielded yet; it yields them in any order.
Unscanned == (1..Len(dir)) \ scanned

\* lines 52-53
ScanNotSymlink(i) ==
    /\ pc = "scan" /\ i \in Unscanned
    /\ ~is_symlink(dir[i])
    /\ scanned' = scanned \cup {i} /\ files' = files
    /\ ScanFrame

\* lines 54-57
ScanNoMatch(i) ==
    /\ pc = "scan" /\ i \in Unscanned
    /\ is_symlink(dir[i])
    /\ YearMatch(dir[i].target) = <<>>
    /\ scanned' = scanned \cup {i} /\ files' = files
    /\ ScanFrame

\* lines 58-60
ScanYearNotIn(i) ==
    /\ pc = "scan" /\ i \in Unscanned
    /\ is_symlink(dir[i])
    /\ YearMatch(dir[i].target) # <<>>
    /\ ~YearInYears(YearMatch(dir[i].target), years)
    /\ scanned' = scanned \cup {i} /\ files' = files
    /\ ScanFrame

\* line 61
ScanAppend(i) ==
    /\ pc = "scan" /\ i \in Unscanned
    /\ is_symlink(dir[i])
    /\ YearMatch(dir[i].target) # <<>>
    /\ YearInYears(YearMatch(dir[i].target), years)
    /\ scanned' = scanned \cup {i}
    /\ files' = Append(files, join(pkg_dir, dir[i].name))
    /\ ScanFrame

\* lines 62-63
ReturnEmpty ==
    /\ pc = "scan" /\ Unscanned = {}
    /\ NoFiles(files)
    /\ pc' = "done"
    /\ UNCHANGED <<pkg_dir, years, dir, disk, pkgname, identifier, metadata, scanned, files,
                   last_pkg, pkginfo, extracted, uploads, res, stderr, stdout, raised>>

\* line 65, the filtered list is not empty
SelectLast ==
    /\ pc = "scan" /\ Unscanned = {}
    /\ ~NoFiles(files)
    /\ Candidates(files) # <<>>
    /\ last_pkg' = LastOf(Candidates(files))
    /\ pc' = "extract"
    /\ UNCHANGED <<pkg_dir, years, dir, disk, pkgname, identifier, metadata, scanned, files,
                   pkginfo, extracted, uploads, res, stderr, stdout, raised>>

\* line 65, [-1] of an empty list
SelectIndexError ==
    /\ pc = "scan" /\ Unscanned = {}
    /\ ~NoFiles(files)
    /\ Candidates(files) = <<>>
    /\ raised' = "IndexError"
    /\ pc' = "raised"
    /\ UNCHANGED <<pkg_dir, years, dir, disk, pkgname, identifier, metadata, scanned, files,
                   last_pkg, pkginfo, extracted, uploads, res, stderr, stdout>>

\* line 66, extract_pkginfo returns; tar is the content of the file at last_pkg
ExtractReturns(tar) ==
    /\ pc = "extract"
    /\ extract_pkginfo(tar).exc = ""
    /\ disk' = tar
    /\ extracted' = Append(extracted, last_pkg)
    /\ pkginfo' = extract_pkginfo(tar).res
    /\ pc' = "assemble"
    /\ UNCHANGED <<pkg_dir, years, dir, pkgname, identifier, metadata, scanned, files,
                   last_pkg, uploads, res, stderr, stdout, raised>>

\* line 66, extract_pkginfo raises
ExtractRaises(tar) ==
    /\ pc = "extract"
    /\ extract_pkginfo(tar).exc # ""
    /\ disk' = tar
    /\ extracted' = Append(extracted, last_pkg)
    /\ raised' = extract_pkginfo(tar).exc
    /\ pc' = "raised"
    /\ UNCHANGED <<pkg_dir, years, dir, pkgname, identifier, metadata, scanned, files,
                   last_pkg, pkginfo, uploads, res, stderr, stdout>>

\* lines 67-69
Assemble ==
    /\ pc = "assemble"
    /\ MissingKeys(pkginfo) = {}
    /\ metadata' =
         [k \in DOMAIN metadata \cup {"description", "rights"} |->
             IF k = "description" THEN Description(pkgname, pkginfo)
             ELSE IF k = "rights" THEN Rights(pkginfo)
             ELSE metadata[k]]
    /\ pc' = "upload"
    /\ UNCHANGED <<pkg_dir, years, dir, disk, pkgname, identifier, scanned, files,
                   last_pkg, pkginfo, extracted, uploads, res, stderr, stdout, raised>>

\* line 68, pkginfo['url'] or pkginfo['license'] is missing
AssembleKeyError ==
    /\ pc = "assemble"
    /\ MissingKeys(pkginfo) # {}
    /\ raised' = "KeyError"
    /\ pc' = "raised"
    /\ UNCHANGED <<pkg_dir, years, dir, disk, pkgname, identifier, metadata, scanned, files,
                   last_pkg, pkginfo, extracted, uploads, res, stderr, stdout>>

UploadCall == [identifier |-> identifier, files |-> files, metadata |-> metadata]

UploadFrame ==
    UNCHANGED <<pkg_dir, years, dir, disk, pkgname, identifier, metadata, scanned, files,
                last_pkg, pkginfo, extracted>>

\* lines 73-74, every result is a 200
UploadAllOk(r) ==
    /\ pc = "upload"
    /\ AllOk(r)
    /\ uploads' = Append(uploads, UploadCall)
    /\ res' = [kind |-> "returned", codes |-> r, error |-> ""]
    /\ pc' = "done"
    /\ UNCHANGED <<stderr, stdout, raised>>
    /\ UploadFrame

\* lines 73-79
UploadPartial(r) ==
    /\ pc = "upload"
    /\ ~AllOk(r)
    /\ uploads' = Append(uploads, UploadCall)
    /\ res' = [kind |-> "returned", codes |-> r, error |-> ""]
    /\ stderr' = Append(stderr,
                        [identifier |-> identifier, ok |-> CountOk(r),
                         total |-> CountOk(r) + CountNok(r), codes |-> Codes(r)])
    /\ stdout' = Append(stdout, pkg_dir)
    /\ pc' = "done"
    /\ UNCHANGED raised
    /\ UploadFrame

\* lines 73 and 80-83: ia.upload raises e
UploadRaises(e) ==
    /\ pc = "upload"
    /\ uploads' = Append(uploads, UploadCall)
    /\ res' = [kind |-> "raised", codes |-> <<>>, error |-> e]
    /\ IF CaughtByExcept(e)
       THEN /\ stderr' = stderr \o <<[identifier |-> identifier, text |-> "exception raised"],
                                     [error |-> e]>>
            /\ stdout' = Append(stdout, pkg_dir)
            /\ pc' = "done"
            /\ UNCHANGED raised
       ELSE /\ raised' = e
            /\ pc' = "raised"
            /\ UNCHANGED <<stderr, stdout>>
    /\ UploadFrame

Next ==
    \/ Main
    \/ \E i \in Unscanned : ScanNotSymlink(i)
    \/ \E i \in Unscanned : ScanNoMatch(i)
    \/ \E i \in Unscanned : ScanYearNotIn(i)
    \/ \E i \in Unscanned : ScanAppend(i)
    \/ ReturnEmpty
    \/ SelectLast
    \/ SelectIndexError
    \/ pc = "extract" /\ \E tar \in Containers : ExtractReturns(tar)
    \/ pc = "extract" /\ \E tar \in Containers : ExtractRaises(tar)
    \/ Assemble
    \/ AssembleKeyError
    \/ pc = "upload" /\ \E r \in Results : UploadAllOk(r)
    \/ pc = "upload" /\ \E r \in Results : UploadPartial(r)
    \/ pc = "upload" /\ \E e \in UploadErrors : UploadRaises(e)

Spec == Init /\ [][Next]_vars

(***************************************************************************)
(* main on every short directory path: the runs that exercise clean_name.  *)
(* The directory is empty, so upload_pkg returns at line 63.               *)
(***************************************************************************)
InitClean ==
    /\ pkg_dir \in SeqsUpTo(PathAlphabet, MaxNameLen)
    /\ years = MainYears
    /\ dir = <<>>
    /\ Start

NextClean == Main \/ ReturnEmpty

SpecClean == InitClean /\ [][NextClean]_vars

(***************************************************************************)
(* main on a directory holding one link of 2013, whose file is any package *)
(* file: the runs that exercise extract_pkginfo.                           *)
(***************************************************************************)
OneLinkDir ==
    <<[name |-> <<"p", "-", "1">>, kind |-> "symlink", target |-> TargetPlain]>>

InitPkginfo ==
    /\ pkg_dir = <<"r", "/", "p", "+", "1">>
    /\ years = MainYears
    /\ dir = OneLinkDir
    /\ Start

NextPkginfo ==
    \/ Main
    \/ \E i \in Unscanned : ScanAppend(i)
    \/ SelectLast
    \/ pc = "extract" /\ \E ns \in EntryNameSeqs, ls \in LineSeqs :
                            ExtractReturns(TarOf(ns, ls))
    \/ pc = "extract" /\ \E ns \in EntryNameSeqs, ls \in LineSeqs :
                            ExtractRaises(TarOf(ns, ls))
    \/ ExtractRaises(Unreadable)

SpecPkginfo == InitPkginfo /\ [][NextPkginfo]_vars

(***************************************************************************)
(* Properties.                                                             *)
(***************************************************************************)
\* The scan loop of upload_pkg has ended.
ScanDone == pc \notin {"main", "scan"}

\* The direct children that are links whose target matches the pattern with
\* a captured year of the year set.
KeptEntries ==
    {i \in 1..Len(dir) :
        /\ dir[i].kind = "symlink"
        /\ YearMatch(dir[i].target) # <<>>
        /\ YearMatch(dir[i].target) \in years}
KeptPaths == {join(pkg_dir, dir[i].name) : i \in KeptEntries}
KeptNonSig == {x \in KeptPaths : ~EndsWith(x, SigSuffix)}

Alnum == Letters \cup Digits

\* C1: the file list of every upload call is exactly the set of children
\* that are links with a matching target and a captured year of the year
\* set, each once; files, sub-directories, links with a non-matching target
\* and links of another year are not in it.
C1_UploadedFilesAreKept ==
    \A i \in 1..Len(uploads) :
        /\ Range(uploads[i].files) = KeptPaths
        /\ Len(uploads[i].files) = Cardinality(KeptPaths)

\* An upload of one link out of a directory of two, the other being a link
\* whose captured year is outside the set.
C1_Witness ==
    /\ uploads # <<>>
    /\ Len(uploads[1].files) = 1
    /\ Len(dir) = 2
    /\ \E i \in 1..Len(dir) :
          /\ is_symlink(dir[i])
          /\ YearMatch(dir[i].target) # <<>>
          /\ YearMatch(dir[i].target) \notin years

\* C2: when no entry survives the filtering, upload_pkg returns with no
\* call of the extractor, no upload call, no report and no exception.
C2_EmptyBatchNoOp ==
    (ScanDone /\ KeptPaths = {}) =>
        /\ pc = "done"
        /\ extracted = <<>>
        /\ uploads = <<>>
        /\ stderr = <<>>
        /\ stdout = <<>>
        /\ raised = ""

\* upload_pkg has returned from a directory of two links, none kept.
C2_Witness ==
    /\ pc = "done"
    /\ KeptPaths = {}
    /\ Len(dir) = 2
    /\ \A i \in 1..Len(dir) : is_symlink(dir[i])

\* C3: when a kept path does not end in '.sig', the file handed to the
\* extractor is the greatest kept path not ending in '.sig'.
C3_RepresentativeIsGreatestNonSig ==
    (ScanDone /\ KeptNonSig # {}) =>
        /\ last_pkg \in KeptNonSig
        /\ \A x \in KeptNonSig : x = last_pkg \/ StrLess(x, last_pkg)
        /\ \A i \in 1..Len(extracted) : extracted[i] = last_pkg
        /\ pc # "extract" => extracted # <<>>

\* The extractor was called on a package although its signature, also kept,
\* is the greatest kept path.
C3_Witness ==
    /\ extracted # <<>>
    /\ \E x \in KeptPaths : EndsWith(x, SigSuffix) /\ StrLess(extracted[1], x)

\* The errors that report a bad container: tarfile.ReadError and the
\* decoding error (the spec's FormatError).
FormatErrors == {"ReadError", "UnicodeDecodeError"}

NoPkginfoEntry ==
    /\ disk.readable
    /\ \A i \in 1..Len(disk.entries) : disk.entries[i].name # PkginfoName

\* C4: when the entry stream ends with no entry named '.PKGINFO',
\* extract_pkginfo fails with a format error.
C4_MissingEntryIsFormatError ==
    (extracted # <<>> /\ NoPkginfoEntry) => (pc = "raised" /\ raised \in FormatErrors)

\* C5: when the upload call returns, a report is emitted exactly when a
\* result has a status code other than 200; it gives the number of 200
\* results over the number of results and the set of status codes; then
\* upload_pkg returns without raising.
C5_PartialFailureReport ==
    res.kind = "returned" =>
        /\ pc = "done"
        /\ raised = ""
        /\ (stderr # <<>>) <=> (\E i \in 1..Len(res.codes) : res.codes[i] # 200)
        /\ stderr # <<>> =>
              /\ Len(stderr) = 1
              /\ stderr[1].identifier = identifier
              /\ stderr[1].ok = Cardinality({i \in 1..Len(res.codes) : res.codes[i] = 200})
              /\ stderr[1].total = Len(res.codes)
              /\ stderr[1].codes = Range(res.codes)
              /\ stdout = <<pkg_dir>>
        /\ stderr = <<>> => stdout = <<>>

\* Two results of 200 and one of 503 reported as 2/3.
C5_Witness ==
    /\ res.kind = "returned"
    /\ res.codes = <<200, 503, 200>>
    /\ stderr # <<>>
    /\ stderr[1].ok = 2
    /\ stderr[1].total = 3

\* C6: when the upload call raises, upload_pkg reports the identifier, the
\* error and the directory and returns; the error does not propagate and
\* the call is made once.
C6_UploadErrorIsReported ==
    res.kind = "raised" =>
        /\ pc = "done"
        /\ raised = ""
        /\ Len(uploads) = 1
        /\ stderr = <<[identifier |-> identifier, text |-> "exception raised"],
                      [error |-> res.error]>>
        /\ stdout = <<pkg_dir>>

C6_Witness ==
    /\ res.kind = "raised"
    /\ res.error = "ConnectionError"
    /\ pc = "done"
    /\ Len(stderr) = 2

\* C7, as claimed: for every package name the identifier holds only
\* alphanumerics, '-' and '_'.
C7_IdentifierAlwaysClean ==
    pc # "main" => \A i \in 1..Len(identifier) : identifier[i] \in Alnum \cup {"-", "_"}

\* C7, amended: for every package name made only of alphanumerics, '-',
\* '_', '@', '+' and '.', the identifier holds only alphanumerics, '-' and
\* '_'.
C7_IdentifierCleanForArchNames ==
    (pc # "main" /\ \A i \in 1..Len(pkgname) :
                       pkgname[i] \in Alnum \cup {"-", "_", "@", "+", "."}) =>
        \A i \in 1..Len(identifier) : identifier[i] \in Alnum \cup {"-", "_"}

\* The identifier of a name holding '@', '+' and '.'.
C7_Witness ==
    /\ pc # "main"
    /\ pkgname = <<"@", "+", ".">>
    /\ identifier = IdentifierPrefix \o <<"_", "_", "_">>

\* The lines of the first entry named '.PKGINFO'.
PkginfoLines ==
    disk.entries[Min({i \in 1..Len(disk.entries) : disk.entries[i].name = PkginfoName})].lines

\* The lines of the form '<key> = <value>' that carry key k.
LinesOfKey(k) ==
    {i \in 1..Len(PkginfoLines) :
        LineMatches(PkginfoLines[i]) /\ LineKey(PkginfoLines[i]) = k}

\* C8: the mapping extract_pkginfo returns has the keys of the lines of the
\* form '<key> = <value>' and, for each key, the value of the last line
\* carrying it; the other lines contribute nothing.
C8_LastOccurrenceWins ==
    pc = "assemble" =>
        /\ \A i \in 1..Len(PkginfoLines) :
              LineMatches(PkginfoLines[i]) => LineKey(PkginfoLines[i]) \in DOMAIN pkginfo
        /\ \A k \in DOMAIN pkginfo :
              /\ LinesOfKey(k) # {}
              /\ pkginfo[k] = LineValue(PkginfoLines[Max(LinesOfKey(k))])

\* 'license = X' then 'license =  Y ' and a comment yield license: 'Y' only.
C8_Witness ==
    /\ pc = "assemble"
    /\ PkginfoLines = <<LineLicenseX, LineLicenseY, LineComment>>
    /\ DOMAIN pkginfo = {KeyLicense}
    /\ pkginfo[KeyLicense] = <<"Y">>

\* extract_pkginfo raises on the package file at the path of last_pkg.
ExtractionFails ==
    \/ ~disk.readable
    \/ NoPkginfoEntry
    \/ \E i \in 1..Len(PkginfoLines) : InvalidByte \in Range(PkginfoLines[i])

ExtractErrors == {"ReadError", "AttributeError", "UnicodeDecodeError"}

\* C9: the upload interface is called at most once, after the extraction on
\* the representative file and the assembly of 'description' and 'rights';
\* when the extraction raises or the record lacks 'url' or 'license', the
\* error propagates and there is no upload call.
C9_UploadOnceAfterExtraction ==
    /\ Len(uploads) <= 1
    /\ uploads # <<>> =>
          /\ extracted = <<last_pkg>>
          /\ ~ExtractionFails
          /\ {KeyUrl, KeyLicense} \subseteq DOMAIN pkginfo
          /\ {"description", "rights"} \subseteq DOMAIN uploads[1].metadata
          /\ uploads[1].metadata["rights"] = <<"License: ", pkginfo[KeyLicense]>>
    /\ (extracted # <<>> /\ ExtractionFails) =>
          (pc = "raised" /\ raised \in ExtractErrors /\ uploads = <<>>)
    /\ (pc \notin {"main", "scan", "extract", "assemble"} /\ extracted # <<>>
           /\ ~ExtractionFails /\ ~({KeyUrl, KeyLicense} \subseteq DOMAIN pkginfo)) =>
          (pc = "raised" /\ raised = "KeyError" /\ uploads = <<>>)

\* A KeyError on a record without 'license' ended the run before any upload.
C9_Witness ==
    /\ pc = "raised"
    /\ raised = "KeyError"
    /\ KeyUrl \in DOMAIN pkginfo
    /\ KeyLicense \notin DOMAIN pkginfo
    /\ uploads = <<>>

\* C10: whenever an entry survives the filter, upload_pkg selects a
\* representative file and goes on to the extraction; the selection does
\* not raise.
C10_SelectionNeverRaises ==
    (ScanDone /\ KeptPaths # {}) => (last_pkg # <<>> /\ raised # "IndexError")

====
